---- MODULE Spec2Model ----
(***************************************************************************)
(* Bidirectional, depth-bounded breadth-first search over a person/work    *)
(* graph that is revealed page by page: get_movie_distance (imdb_code.py)  *)
(* driving bfs and cook_soup (imdb_helper_functions.py).                   *)
(*                                                                         *)
(* A person page yields the person's works, a work page yields the work's  *)
(* cast.  Every page fetch is a task of an asyncio.gather, gated by one    *)
(* asyncio.Semaphore(chunk_size); a task is waiting (blocked on the        *)
(* semaphore), inflight (holds a permit, request sent), done or failed     *)
(* (the response was not a success: aiohttp.ClientResponseError).          *)
(***************************************************************************)
EXTENDS Integers, Sequences, FiniteSets, TLC

\* Bounds: the persons and works of the remote site, the credits (entries of
\* cast lists) it holds in all, and the largest depth_limit and chunk_size
\* arguments.
NumPersons == 4
NumWorks == 3
MaxCredits == 6
MaxDepth == 1
MaxChunk == 2

\* num_of_actors_limit = None, num_of_movies_limit = None (imdb_code.py:73-74)
NoLimit == 0

\* depth_limit = None, the default of the argument (imdb_code.py:75)
None == -1

\* depth_limit = 3 when the argument is None or 0 (imdb_code.py:99-100)
DefaultDepth == 3

Persons == 1..NumPersons
Works == 1..NumWorks

\* A page of the remote site: a person page or a work (full credits) page.
ActorPage(p) == <<"actor", p>>
MoviePage(w) == <<"movie", w>>
Pages == {ActorPage(p) : p \in Persons} \cup {MoviePage(w) : w \in Works}

VARIABLES
    cast,                 \* the remote site: cast[w] = persons credited in work w
    answer,               \* the remote site: how each page requested so far was answered
    actor_start_url,      \* arguments of get_movie_distance
    actor_end_url,
    depth_arg,            \* the depth_limit argument
    chunk_size,
    num_of_actors_limit,  \* NoLimit stands for None
    num_of_movies_limit,
    forward_actors,       \* deque of levels (lists of persons)
    backward_actors,
    seen_actors,
    seen_movies,
    distance,
    forward_urls,         \* locals of the round
    backward_urls,
    next_level_f,
    next_level_b,
    pc,                   \* position of get_movie_distance
    outcome,              \* "none" while running, then how the call ended
    returned,             \* the integer returned when outcome = "distance"
    phase,                \* position of the running bfs call
    target_url,           \* locals of the running bfs call
    current_urls,
    movies,
    small_movie_batch,
    small_actor_batch,
    small_actor_batch_seen,
    found,
    tasks,                \* the tasks of the gather being awaited, in argument order
    sem,                  \* the semaphore's free permits
    fetches,              \* history: how often each page was requested in this call
    rounds,               \* history: how many rounds of the while loop were started
    prev                  \* history: how the previous call with these arguments ended

args == <<cast, actor_start_url, actor_end_url, depth_arg, chunk_size,
          num_of_actors_limit, num_of_movies_limit>>
search == <<forward_actors, backward_actors, seen_actors, seen_movies, distance,
            forward_urls, backward_urls, next_level_f, next_level_b>>
frame == <<target_url, current_urls, movies, small_movie_batch, small_actor_batch,
           small_actor_batch_seen, found>>
vars == <<args, answer, search, frame, pc, outcome, returned, phase, tasks, sem,
          fetches, rounds, prev>>

----------------------------------------------------------------------------
(* Lists *)

Range(s) == {s[i] : i \in 1..Len(s)}

Min(S) == CHOOSE x \in S : \A y \in S : x <= y

\* The elements of a set of integers as an ascending list: the order in which a
\* page lists its entries.
RECURSIVE PageOrder(_)
PageOrder(S) == IF S = {} THEN <<>> ELSE <<Min(S)>> \o PageOrder(S \ {Min(S)})

\* Mutant of CheckAndMark: [x for x in L if x not in seen], the ids of L being
\* added to seen after the filter.
CheckThenMark(L, seen) == SelectSeq(L, LAMBDA x : x \notin seen)

\* [x for x in L if not (x in seen or seen.add(x))]: the list kept.  The set
\* afterwards is seen \cup Range(L).
RECURSIVE CheckAndMark(_, _)
CheckAndMark(L, seen) ==
    IF L = <<>> THEN <<>>
    ELSE IF Head(L) \in seen THEN CheckAndMark(Tail(L), seen)
    ELSE <<Head(L)>> \o CheckAndMark(Tail(L), seen \cup {Head(L)})

\* movies_parsing / actors_parsing: the lists of a list of lists, in order.
RECURSIVE Flatten(_)
Flatten(LL) == IF LL = <<>> THEN <<>> ELSE Head(LL) \o Flatten(Tail(LL))

Take(L, n) == SubSeq(L, 1, IF Len(L) < n THEN Len(L) ELSE n)
Drop(L, n) == SubSeq(L, n + 1, Len(L))

----------------------------------------------------------------------------
(* The extractors, applied to the page of a person or of a work *)

\* get_movies_by_actor_soup: the works of person p in page order, cut to the
\* first `limit` of them when a limit is given.
get_movies_by_actor_soup(p, limit) ==
    LET movie_list == PageOrder({w \in Works : p \in cast[w]})
    IN  IF limit # NoLimit THEN Take(movie_list, limit) ELSE movie_list

\* get_actors_by_movie_soup: the cast of work w in page order, cut to the first
\* `limit` entries when a limit is given.
get_actors_by_movie_soup(w, limit) ==
    LET cast_list == PageOrder(cast[w])
    IN  IF limit # NoLimit THEN Take(cast_list, limit) ELSE cast_list

----------------------------------------------------------------------------
(* asyncio.gather over cook_soup tasks, gated by the semaphore *)

\* How many of n new tasks find a free permit when they first run.
Admitted(n) == IF n < sem THEN n ELSE sem

\* await asyncio.gather(*[cook_soup(sem, session, url) for url in urls]): the
\* tasks run in argument order up to their first suspension, so the first ones
\* take the free permits and send their requests and the others wait on the
\* semaphore.
Gather(urls) ==
    /\ tasks' = [i \in 1..Len(urls) |->
                    [url |-> urls[i],
                     st |-> IF i <= Admitted(Len(urls)) THEN "inflight" ELSE "waiting"]]
    /\ sem' = sem - Admitted(Len(urls))
    /\ fetches' = [x \in Pages |->
                      fetches[x] + Cardinality({i \in 1..Admitted(Len(urls)) : urls[i] = x})]

Waiting == {i \in 1..Len(tasks) : tasks[i].st = "waiting"}
InFlight == {i \in 1..Len(tasks) : tasks[i].st = "inflight"}

\* Mutant of GatherDone: a task that raised counts as finished
\* (return_exceptions=True).
GatherDoneOrFailed == \A i \in 1..Len(tasks) : tasks[i].st \in {"done", "failed"}

\* gather returns its results once every task has returned its soup.
GatherDone == \A i \in 1..Len(tasks) : tasks[i].st = "done"

\* gather raises the exception of a task that raised (return_exceptions is off).
GatherRaised == \E i \in 1..Len(tasks) : tasks[i].st = "failed"

\* Mutant of Release: the permit goes back only when the body ended normally.
ReleaseOnSuccess(ok) == IF ok THEN sem + 1 ELSE sem

\* __aexit__ of "async with sem": the permit goes back however the body ended.
Release(ok) == sem + 1

\* cook_soup, "async with sem": a permit was released and the longest waiting
\* task takes it and sends its request.
Acquire(i) ==
    /\ i \in Waiting
    /\ i = Min(Waiting)
    /\ sem > 0
    /\ sem' = sem - 1
    /\ tasks' = [tasks EXCEPT ![i].st = "inflight"]
    /\ fetches' = [fetches EXCEPT ![tasks[i].url] = @ + 1]
    /\ UNCHANGED <<args, answer, search, frame, pc, outcome, returned, phase, rounds,
                   prev>>

\* cook_soup: the response arrives and is parsed; the permit is released.  The
\* site answers a page the same way every time it is asked.
Complete(i) ==
    /\ i \in InFlight
    /\ answer[tasks[i].url] # "error"
    /\ answer' = [answer EXCEPT ![tasks[i].url] = "ok"]
    /\ sem' = Release(TRUE)
    /\ tasks' = [tasks EXCEPT ![i].st = "done"]
    /\ UNCHANGED <<args, search, frame, pc, outcome, returned, phase, fetches,
                   rounds, prev>>

\* cook_soup: session.get raises ClientResponseError (raise_for_status); the
\* permit is released as the exception leaves the "async with".
Fail(i) ==
    /\ i \in InFlight
    /\ answer[tasks[i].url] # "ok"
    /\ answer' = [answer EXCEPT ![tasks[i].url] = "error"]
    /\ sem' = Release(FALSE)
    /\ tasks' = [tasks EXCEPT ![i].st = "failed"]
    /\ UNCHANGED <<args, search, frame, pc, outcome, returned, phase, fetches,
                   rounds, prev>>

----------------------------------------------------------------------------
(* bfs: one level of persons expanded to the next level *)

\* The arguments num_of_actors_limit / num_of_movies_limit may take.
LimitArgs == {NoLimit}

\* Mutant of Chunk: the chunk is one work longer (movies[:chunk_size + 1]).
ChunkLonger(L) == Take(L, chunk_size + 1)

\* small_movie_batch = movies[:chunk_size]; movies = movies[chunk_size:]
Chunk(L) == Take(L, chunk_size)
Rest(L) == Drop(L, chunk_size)

\* Mutant of TargetIn: the target is looked for in the batch gathered before
\* this chunk.
TargetInBatch(actors_urls) == target_url \in Range(small_actor_batch)

\* "if target_url in actors_urls"
TargetIn(actors_urls) == target_url \in Range(actors_urls)

\* The batch returned when the target is in the chunk:
\* small_actor_batch.extend(actors_urls)
FoundBatch(batch, actors_urls) == batch \o actors_urls

\* The batch after a chunk without the target: small_actor_batch.extend(
\* [x for x in actors_urls if not (x in small_actor_batch_seen or ...add(x))])
ExtendBatch(batch, actors_urls) ==
    batch \o CheckAndMark(actors_urls, small_actor_batch_seen)

\* The call bfs(..., urls, seen_actors, seen_movies, ..., target) up to its first
\* await: the level is filtered against seen_actors, every person kept is marked,
\* and the person pages are gathered.
BfsCall(urls, target) ==
    /\ found' = FALSE
    /\ target_url' = target
    /\ current_urls' = CheckAndMark(urls, seen_actors)
    /\ seen_actors' = seen_actors \cup Range(urls)
    /\ Gather([i \in 1..Len(current_urls') |-> ActorPage(current_urls'[i])])
    /\ phase' = "actors"
    /\ movies' = <<>>
    /\ small_movie_batch' = <<>>
    /\ small_actor_batch' = <<>>
    /\ small_actor_batch_seen' = {}

\* "while movies:" with the works left in `left` and the batch so far in `batch`:
\* the next chunk is gathered, or the loop ends and bfs returns.
ChunkLoop(left, batch) ==
    /\ small_actor_batch' = batch
    /\ IF left # <<>>
       THEN /\ small_movie_batch' = Chunk(left)
            /\ movies' = Rest(left)
            /\ Gather([i \in 1..Len(Chunk(left)) |-> MoviePage(Chunk(left)[i])])
            /\ phase' = "movies"
       ELSE /\ small_movie_batch' = small_movie_batch
            /\ movies' = left
            /\ tasks' = <<>>
            /\ phase' = "returned"
            /\ UNCHANGED <<sem, fetches>>

\* bfs, after the person pages arrived: the filmographies are extracted and
\* flattened, filtered against seen_movies, and the chunk loop is entered.
ActorsGathered ==
    /\ pc \in {"forward", "backward"}
    /\ phase = "actors"
    /\ GatherDone
    /\ LET all == Flatten([i \in 1..Len(current_urls) |->
                      get_movies_by_actor_soup(current_urls[i], num_of_movies_limit)])
       IN  /\ seen_movies' = seen_movies \cup Range(all)
           /\ small_actor_batch_seen' = {}
           /\ ChunkLoop(CheckAndMark(all, seen_movies), <<>>)
    /\ UNCHANGED <<args, answer, forward_actors, backward_actors, seen_actors, distance,
                   forward_urls, backward_urls, next_level_f, next_level_b,
                   target_url, current_urls, found, pc, outcome, returned, rounds,
                   prev>>

\* bfs, after the work pages of a chunk arrived: the casts are extracted and
\* flattened; the target in them ends the call, otherwise the batch grows and
\* the loop goes on.
ChunkGathered ==
    /\ pc \in {"forward", "backward"}
    /\ phase = "movies"
    /\ GatherDone
    /\ LET actors_urls == Flatten([i \in 1..Len(small_movie_batch) |->
                  get_actors_by_movie_soup(small_movie_batch[i], num_of_actors_limit)])
       IN  IF TargetIn(actors_urls)
           THEN /\ found' = TRUE
                /\ small_actor_batch' = FoundBatch(small_actor_batch, actors_urls)
                /\ phase' = "returned"
                /\ tasks' = <<>>
                /\ UNCHANGED <<movies, small_movie_batch, small_actor_batch_seen, sem,
                               fetches>>
           ELSE /\ found' = found
                /\ small_actor_batch_seen' = small_actor_batch_seen \cup Range(actors_urls)
                /\ ChunkLoop(movies, ExtendBatch(small_actor_batch, actors_urls))
    /\ UNCHANGED <<args, answer, search, target_url, current_urls, pc, outcome, returned,
                   rounds, prev>>

----------------------------------------------------------------------------
(* get_movie_distance *)

\* "if not depth_limit: depth_limit = 3": the limit in force.
DepthLimit == IF depth_arg = None \/ depth_arg = 0 THEN DefaultDepth ELSE depth_arg

\* The depth_limit arguments a caller may give.
DepthArgs == {None} \cup 0..MaxDepth

\* Mutant of LoopContinues: "while distance <= depth_limit".
LoopContinuesInclusive == distance <= DepthLimit

\* "while distance < depth_limit"
LoopContinues == distance < DepthLimit

\* len(set(a).intersection(set(b))) > 0
Intersects(a, b) == Range(a) \cap Range(b) # {}

\* Mutants of DistanceNextVsNext: the value of the line above it, and the
\* value for a counter already incremented.
DistanceNextVsNextShort(d) == (2 * d) + 1
DistanceNextVsNextLate(d) == (2 * (d + 1)) + 2

\* Mutant of DistanceNextVsCurrent: the value of the next-level overlap.
DistanceNextVsCurrentEven(d) == (2 * d) + 2

\* The three values a round with distance counter d returns.
DistanceFound(d) == d + 1
DistanceNextVsCurrent(d) == (2 * d) + 1
DistanceNextVsNext(d) == (2 * d) + 2

\* The graph served by the remote site.  Works are interchangeable, so only the
\* graphs whose works are listed in ascending order of their casts are drawn.
\* Persons are interchangeable too: the start person is the first one, and the
\* end person is the start person or the second one.  A person stands for the
\* url with "www." removed (lines 88-89), as the extractors produce it.
StartPerson == Min(Persons)
EndPersons == {p \in Persons : p <= StartPerson + 1}

RECURSIVE CastCode(_)
CastCode(S) == IF S = {} THEN 0 ELSE LET p == Min(S) IN 2^(p - 1) + CastCode(S \ {p})
RECURSIVE Credits(_, _)
Credits(g, W) ==
    IF W = {} THEN 0 ELSE LET w == Min(W) IN Cardinality(g[w]) + Credits(g, W \ {w})
Graphs == {g \in [Works -> SUBSET Persons] :
              /\ \A w \in Works : w + 1 \in Works => CastCode(g[w]) <= CastCode(g[w + 1])
              /\ Credits(g, Works) <= MaxCredits}

\* Mutant of NewSeen: the seen sets outlive the call (module-level sets).
KeptSeen(left) == left

\* seen_actors = set(), seen_movies = set(): new sets in every call, whatever
\* an earlier call left in its own.
NewSeen(left) == {}

\* Lines 88-97: the locals of a call, for the arguments given; leftActors and
\* leftMovies are the seen sets an earlier call ended with.  (The locals of bfs
\* and of the round are given their values before they are first read.)
Locals(leftActors, leftMovies) ==
    [forward_actors |-> <<<<actor_start_url>>>>,
     backward_actors |-> <<<<actor_end_url>>>>,
     seen_actors |-> NewSeen(leftActors),
     seen_movies |-> NewSeen(leftMovies),
     distance |-> 0,
     sem |-> chunk_size,
     forward_urls |-> <<>>,
     backward_urls |-> <<>>,
     next_level_f |-> <<>>,
     next_level_b |-> <<>>,
     pc |-> "loop",
     outcome |-> "none",
     returned |-> 0,
     phase |-> "idle",
     target_url |-> actor_end_url,
     current_urls |-> <<>>,
     movies |-> <<>>,
     small_movie_batch |-> <<>>,
     small_actor_batch |-> <<>>,
     small_actor_batch_seen |-> {},
     found |-> FALSE,
     tasks |-> <<>>,
     fetches |-> [x \in Pages |-> 0],
     rounds |-> 0]

Init ==
    /\ cast \in Graphs
    /\ answer = [x \in Pages |-> "unknown"]
    /\ actor_start_url = StartPerson
    /\ actor_end_url \in EndPersons
    /\ depth_arg \in DepthArgs
    /\ chunk_size \in 1..MaxChunk
    /\ num_of_actors_limit \in LimitArgs
    /\ num_of_movies_limit \in LimitArgs
    /\ prev = <<"none", 0>>
    /\ forward_actors = Locals({}, {}).forward_actors
    /\ backward_actors = Locals({}, {}).backward_actors
    /\ seen_actors = Locals({}, {}).seen_actors
    /\ seen_movies = Locals({}, {}).seen_movies
    /\ distance = Locals({}, {}).distance
    /\ sem = Locals({}, {}).sem
    /\ forward_urls = Locals({}, {}).forward_urls
    /\ backward_urls = Locals({}, {}).backward_urls
    /\ next_level_f = Locals({}, {}).next_level_f
    /\ next_level_b = Locals({}, {}).next_level_b
    /\ pc = Locals({}, {}).pc
    /\ outcome = Locals({}, {}).outcome
    /\ returned = Locals({}, {}).returned
    /\ phase = Locals({}, {}).phase
    /\ target_url = Locals({}, {}).target_url
    /\ current_urls = Locals({}, {}).current_urls
    /\ movies = Locals({}, {}).movies
    /\ small_movie_batch = Locals({}, {}).small_movie_batch
    /\ small_actor_batch = Locals({}, {}).small_actor_batch
    /\ small_actor_batch_seen = Locals({}, {}).small_actor_batch_seen
    /\ found = Locals({}, {}).found
    /\ tasks = Locals({}, {}).tasks
    /\ fetches = Locals({}, {}).fetches
    /\ rounds = Locals({}, {}).rounds

\* "return <v>" / "return inf" / "raise Exception(...)"
End(how, v) ==
    /\ pc' = "done"
    /\ outcome' = how
    /\ returned' = v

\* Lines 106-116: the loop test holds, a level is taken from each deque (an
\* empty deque raises "Deque is exhausted") and the forward level is expanded
\* towards actor_end_url.
RoundStart ==
    /\ pc = "loop"
    /\ LoopContinues
    /\ rounds' = rounds + 1
    /\ IF forward_actors = <<>> \/ backward_actors = <<>>
       THEN /\ End("exhausted", 0)
            /\ forward_actors' = IF forward_actors = <<>> THEN <<>> ELSE Tail(forward_actors)
            /\ forward_urls' = IF forward_actors = <<>> THEN forward_urls ELSE Head(forward_actors)
            /\ UNCHANGED <<backward_actors, backward_urls, seen_actors, frame, phase, tasks,
                           sem, fetches>>
       ELSE /\ forward_urls' = Head(forward_actors)
            /\ backward_urls' = Head(backward_actors)
            /\ forward_actors' = Tail(forward_actors)
            /\ backward_actors' = Tail(backward_actors)
            /\ BfsCall(Head(forward_actors), actor_end_url)
            /\ pc' = "forward"
            /\ UNCHANGED <<outcome, returned>>
    /\ UNCHANGED <<args, answer, seen_movies, distance, next_level_f, next_level_b, prev>>

\* Lines 106, 159: the loop test fails and inf is returned.
Unreachable ==
    /\ pc = "loop"
    /\ ~LoopContinues
    /\ End("inf", 0)
    /\ UNCHANGED <<args, answer, search, frame, phase, tasks, sem, fetches, rounds, prev>>

\* Lines 117-130: the forward expansion returned.
AfterForward ==
    /\ pc = "forward"
    /\ phase = "returned"
    /\ next_level_f' = small_actor_batch
    /\ IF found
       THEN /\ End("distance", DistanceFound(distance))
            /\ UNCHANGED <<distance, seen_actors, frame, phase, tasks, sem, fetches>>
       ELSE IF Intersects(small_actor_batch, backward_urls)
       THEN /\ distance' = DistanceNextVsCurrent(distance)
            /\ End("distance", distance')
            /\ UNCHANGED <<seen_actors, frame, phase, tasks, sem, fetches>>
       ELSE /\ BfsCall(backward_urls, actor_start_url)
            /\ pc' = "backward"
            /\ UNCHANGED <<distance, outcome, returned>>
    /\ UNCHANGED <<args, answer, forward_actors, backward_actors, seen_movies, forward_urls,
                   backward_urls, next_level_b, rounds, prev>>

\* Mutant of DistanceAdvanced: a round counted as the two hops it explores.
DistanceAdvancedByTwo(d) == d + 2

\* distance += 1
DistanceAdvanced(d) == d + 1

\* Mutant of Appended: a level without persons is not enqueued.
AppendedUnlessEmpty(deque, level) == IF level = <<>> THEN deque ELSE Append(deque, level)

\* forward_actors.append(next_level_f) / backward_actors.append(next_level_b)
Appended(deque, level) == Append(deque, level)

\* Lines 131-155: the backward expansion returned.
AfterBackward ==
    /\ pc = "backward"
    /\ phase = "returned"
    /\ next_level_b' = small_actor_batch
    /\ IF found
       THEN /\ End("distance", DistanceFound(distance))
            /\ UNCHANGED <<distance, forward_actors, backward_actors>>
       ELSE IF Intersects(small_actor_batch, forward_urls)
       THEN /\ distance' = DistanceNextVsCurrent(distance)
            /\ End("distance", distance')
            /\ UNCHANGED <<forward_actors, backward_actors>>
       ELSE IF Intersects(next_level_f, small_actor_batch)
       THEN /\ distance' = DistanceNextVsNext(distance)
            /\ End("distance", distance')
            /\ UNCHANGED <<forward_actors, backward_actors>>
       ELSE /\ forward_actors' = Appended(forward_actors, next_level_f)
            /\ backward_actors' = Appended(backward_actors, small_actor_batch)
            /\ distance' = DistanceAdvanced(distance)
            /\ pc' = "loop"
            /\ UNCHANGED <<outcome, returned>>
    /\ UNCHANGED <<args, answer, seen_actors, seen_movies, forward_urls, backward_urls,
                   next_level_f, frame, phase, tasks, sem, fetches, rounds, prev>>

\* Lines 156-158: the gather awaited by bfs raised ClientResponseError, which
\* leaves bfs and the loop and is turned into "You may have been banned".
Blocked ==
    /\ pc \in {"forward", "backward"}
    /\ phase \in {"actors", "movies"}
    /\ GatherRaised
    /\ End("blocked", 0)
    /\ UNCHANGED <<args, answer, search, frame, phase, tasks, sem, fetches, rounds, prev>>

\* A second call with the same arguments against the same site: lines 88-97
\* build fresh locals.  How the first call ended is remembered.
CallAgain ==
    /\ pc = "done"
    /\ prev' = <<outcome, returned>>
    /\ forward_actors' = Locals(seen_actors, seen_movies).forward_actors
    /\ backward_actors' = Locals(seen_actors, seen_movies).backward_actors
    /\ seen_actors' = Locals(seen_actors, seen_movies).seen_actors
    /\ seen_movies' = Locals(seen_actors, seen_movies).seen_movies
    /\ distance' = Locals(seen_actors, seen_movies).distance
    /\ sem' = Locals(seen_actors, seen_movies).sem
    /\ forward_urls' = Locals(seen_actors, seen_movies).forward_urls
    /\ backward_urls' = Locals(seen_actors, seen_movies).backward_urls
    /\ next_level_f' = Locals(seen_actors, seen_movies).next_level_f
    /\ next_level_b' = Locals(seen_actors, seen_movies).next_level_b
    /\ pc' = Locals(seen_actors, seen_movies).pc
    /\ outcome' = Locals(seen_actors, seen_movies).outcome
    /\ returned' = Locals(seen_actors, seen_movies).returned
    /\ phase' = Locals(seen_actors, seen_movies).phase
    /\ target_url' = Locals(seen_actors, seen_movies).target_url
    /\ current_urls' = Locals(seen_actors, seen_movies).current_urls
    /\ movies' = Locals(seen_actors, seen_movies).movies
    /\ small_movie_batch' = Locals(seen_actors, seen_movies).small_movie_batch
    /\ small_actor_batch' = Locals(seen_actors, seen_movies).small_actor_batch
    /\ small_actor_batch_seen' = Locals(seen_actors, seen_movies).small_actor_batch_seen
    /\ found' = Locals(seen_actors, seen_movies).found
    /\ tasks' = Locals(seen_actors, seen_movies).tasks
    /\ fetches' = Locals(seen_actors, seen_movies).fetches
    /\ rounds' = Locals(seen_actors, seen_movies).rounds
    /\ UNCHANGED <<args, answer>>

Next ==
    \/ RoundStart
    \/ Unreachable
    \/ \E i \in 1..Len(tasks) : Acquire(i)
    \/ \E i \in 1..Len(tasks) : Complete(i)
    \/ \E i \in 1..Len(tasks) : Fail(i)
    \/ ActorsGathered
    \/ ChunkGathered
    \/ AfterForward
    \/ AfterBackward
    \/ Blocked

Spec == Init /\ [][Next]_vars

\* The same, with the caller calling a second time.
SpecCalls == Init /\ [][Next \/ CallAgain]_vars

\* The steps of the coroutine get_movie_distance -> bfs itself.
Step ==
    \/ RoundStart
    \/ Unreachable
    \/ ActorsGathered
    \/ ChunkGathered
    \/ AfterForward
    \/ AfterBackward
    \/ Blocked

\* The event loop runs a coroutine that can go on, and hands a released permit
\* to the longest waiting task; every request sent is answered in the end, with
\* a success or with an error.
SpecFair ==
    /\ Spec
    /\ WF_vars(Step)
    /\ WF_vars(\E i \in 1..Len(tasks) : Acquire(i))
    /\ WF_vars(\E i \in 1..Len(tasks) : Complete(i) \/ Fail(i))

----------------------------------------------------------------------------
(* The collaboration graph the claims speak of *)

\* Two persons share a work.
CoAppear(p, q) == \E w \in Works : p \in cast[w] /\ q \in cast[w]

\* The persons within k co-appearance hops of a person of S.
RECURSIVE Within(_, _)
Within(S, k) ==
    IF k <= 0 THEN S
    ELSE Within(S \cup {q \in Persons : \E p \in S : CoAppear(p, q)}, k - 1)

\* The least number of hops from a to b, for b in the component of a.
Hops(a, b) == Min({k \in 0..NumPersons : b \in Within({a}, k)})
Connected(a, b) == b \in Within({a}, NumPersons)

NoLimits == num_of_actors_limit = NoLimit /\ num_of_movies_limit = NoLimit
FetchFailed == \E x \in Pages : answer[x] = "error"
Duplicates(L) == \E i, j \in 1..Len(L) : i # j /\ L[i] = L[j]

----------------------------------------------------------------------------
(* Claims *)

\* C1: for distinct start and end persons and no cast or work limit, an integer
\* returned by get_movie_distance is the least number of co-appearance hops
\* between the two persons.
C1_FiniteIsShortest ==
    (outcome = "distance" /\ actor_start_url # actor_end_url /\ NoLimits)
        => /\ Connected(actor_start_url, actor_end_url)
           /\ returned = Hops(actor_start_url, actor_end_url)

\* C1 happens: distance 2 is returned for a pair that shares no work.
C1_Witness ==
    /\ outcome = "distance"
    /\ returned = 2
    /\ actor_start_url # actor_end_url
    /\ ~CoAppear(actor_start_url, actor_end_url)

\* C2: a call whose start person is its end person returns distance 0.
C2_SamePersonIsZero ==
    (pc = "done" /\ actor_start_url = actor_end_url /\ ~FetchFailed)
        => (outcome = "distance" /\ returned = 0)

C4_InfMeansFar ==
    (outcome = "inf" /\ NoLimits)
        => actor_end_url \notin Within({actor_start_url}, 2 * DepthLimit)

\* C4, for two different persons (the case the loop does handle).
C4_InfMeansFarDistinct ==
    (outcome = "inf" /\ NoLimits /\ actor_start_url # actor_end_url)
        => actor_end_url \notin Within({actor_start_url}, 2 * DepthLimit)

\* C5: once a page fetch has failed with a non-success response the call
\* returns neither an integer nor inf: the exception is raised at once and the
\* call ends with "You may have been banned".
C5_FailureBlocks ==
    FetchFailed
        => /\ outcome \in {"none", "blocked"}
           /\ outcome = "none" => ENABLED Blocked

\* C5 happens: the call ended blocked although another work page of the same
\* chunk arrived and lists the target.
C5_Witness ==
    /\ outcome = "blocked"
    /\ phase = "movies"
    /\ \E i, j \in 1..Len(tasks) :
          /\ tasks[i].st = "failed"
          /\ tasks[j].st = "done"
          /\ target_url \in cast[tasks[j].url[2]]

C7_SameOutcome ==
    (pc = "done" /\ prev[1] # "none") => <<outcome, returned>> = prev

\* C7 happens: a second call has ended, with an integer, after a first call
\* that had marked persons and works as seen.
C7_Witness ==
    /\ pc = "done"
    /\ prev[1] = "distance"
    /\ outcome = "distance"
    /\ seen_actors # {}
    /\ seen_movies # {}

\* C8: the batch bfs returns holds every person at most once, on every return.
C8_BatchHasNoDuplicates == phase = "returned" => ~Duplicates(small_actor_batch)

\* C9: the works still in `movies` (the chunks after the current one) have not
\* been requested; bfs returns found exactly when a chunk it fetched lists the
\* target, and then the works of the later chunks stay unrequested.
C9_ShortCircuit ==
    /\ \A w \in Range(movies) : fetches[MoviePage(w)] = 0
    /\ (phase = "returned" /\ ~found) => target_url \notin Range(small_actor_batch)
    /\ (phase = "returned" /\ found)
          => \E w \in Range(small_movie_batch) : target_url \in cast[w]

\* C9 happens: bfs returned found from a chunk that was not the last one.
C9_Witness ==
    /\ phase = "returned"
    /\ found
    /\ movies # <<>>
    /\ \A w \in Range(movies) : fetches[MoviePage(w)] = 0

\* C10: the fetches in flight are at most chunk_size, and together with the
\* free permits they are exactly chunk_size.
C10_Gate ==
    /\ sem >= 0
    /\ Cardinality(InFlight) <= chunk_size
    /\ Cardinality(InFlight) + sem = chunk_size

\* C10 happens: a level of more persons than permits is being fetched; a fetch
\* failed, and a task that had to wait has taken the permit it gave back.
C10_Witness ==
    /\ phase = "actors"
    /\ Len(tasks) > chunk_size
    /\ Cardinality(InFlight) = chunk_size
    /\ \E i, j \in 1..Len(tasks) :
          /\ tasks[i].st = "failed"
          /\ j > chunk_size
          /\ tasks[j].st = "inflight"

\* The rounds a caller asks for: the depth_limit given, 3 when none is given.
RoundsAsked == IF depth_arg = None THEN DefaultDepth ELSE depth_arg

\* C11: every call ends, with an integer, inf or an exception, after at most
\* depth_limit rounds for every depth_limit >= 0 given by the caller (3 rounds
\* when none is given), and once it has ended no round starts and the outcome
\* stays.
C11_EndsWithinDepthLimit ==
    /\ <>(pc = "done" /\ outcome \in {"distance", "inf", "blocked", "exhausted"})
    /\ [](rounds <= RoundsAsked)
    /\ [][pc = "done" => (pc' = "done" /\ rounds' = rounds /\ outcome' = outcome
                            /\ returned' = returned)]_vars

\* C11, with the depth limit in force (3 also when 0 is given) in place of the
\* depth_limit given.
C11_EndsWithinLimitInForce ==
    /\ <>(pc = "done" /\ outcome \in {"distance", "inf", "blocked", "exhausted"})
    /\ [](rounds <= DepthLimit)
    /\ [][pc = "done" => (pc' = "done" /\ rounds' = rounds /\ outcome' = outcome
                            /\ returned' = returned)]_vars

\* C12: in one call every person page and every work page is requested at most
\* once, whatever the order in which the fetches complete: the tasks of one
\* gather are for different pages, and a page is only requested for an id that
\* the filter has put in its seen set.
C12_FetchedAtMostOnce ==
    /\ \A x \in Pages : fetches[x] <= 1
    /\ \A i, j \in 1..Len(tasks) : i # j => tasks[i].url # tasks[j].url
    /\ \A p \in Persons : fetches[ActorPage(p)] > 0 => p \in seen_actors
    /\ \A w \in Works : fetches[MoviePage(w)] > 0 => w \in seen_movies

\* C12 happens: a level holds a person expanded in an earlier round, who is not
\* fetched again, and two persons of the level list the same new work, which is
\* requested once.
C12_Witness ==
    /\ pc = "forward"
    /\ phase = "movies"
    /\ \E p \in Range(forward_urls) :
          p \notin Range(current_urls) /\ fetches[ActorPage(p)] = 1
    /\ \E w \in Range(small_movie_batch) :
          /\ fetches[MoviePage(w)] = 1
          /\ \E p, q \in Range(current_urls) : p # q /\ p \in cast[w] /\ q \in cast[w]

\* The levels waiting on the two deques.
Levels == Range(forward_actors) \cup Range(backward_actors)

\* C13: a person in seen_actors is not returned again in a next-level batch:
\* no level enqueued on a deque holds a person that is in seen_actors.
C13_SeenNotReturned ==
    \A level \in Levels : Range(level) \cap seen_actors = {}

\* C14: in a round with counter d, a forward expansion that reports found ends
\* the call with d + 1, and a next forward level that meets the backward level
\* just dequeued ends it with 2d + 1, in both cases without a request for the
\* backward expansion of the round (none is sent in that step or after it);
\* after the backward expansion the overlaps next-backward / current-forward
\* (2d + 1) and next-forward / next-backward (2d + 2) are tried in this order,
\* and the round goes on to the next one only when none holds.
C14_TieBreak ==
    [][/\ (pc = "forward" /\ phase = "returned" /\ found)
            => /\ outcome' = "distance" /\ returned' = distance + 1
               /\ pc' = "done" /\ fetches' = fetches /\ tasks' = <<>>
       /\ (pc = "forward" /\ phase = "returned" /\ ~found
             /\ Intersects(small_actor_batch, backward_urls))
            => /\ outcome' = "distance" /\ returned' = (2 * distance) + 1
               /\ pc' = "done" /\ fetches' = fetches /\ tasks' = <<>>
       /\ (pc = "forward" /\ phase = "returned" /\ ~found
             /\ ~Intersects(small_actor_batch, backward_urls))
            => pc' = "backward" /\ outcome' = "none"
       /\ (pc = "backward" /\ phase = "returned" /\ ~found)
            => IF Intersects(small_actor_batch, forward_urls)
               THEN outcome' = "distance" /\ returned' = (2 * distance) + 1
               ELSE IF Intersects(next_level_f, small_actor_batch)
               THEN outcome' = "distance" /\ returned' = (2 * distance) + 2
               ELSE outcome' = "none" /\ pc' = "loop"
       /\ outcome = "distance" => fetches' = fetches
      ]_vars

\* C14 happens: in the second round (d = 1) the next forward level met the
\* backward level just dequeued and the call ended with 3; a person of that
\* backward level, due for expansion, was never requested.
C14_Witness ==
    /\ outcome = "distance"
    /\ rounds = 2
    /\ ~found
    /\ returned = 3
    /\ \E p \in Range(backward_urls) \cap Range(next_level_f) : fetches[ActorPage(p)] = 0

\* The works whose pages are requested or waiting to be, while the chunk loop
\* of bfs awaits a gather.
ChunkTasks == {tasks[i].url[2] : i \in 1..Len(tasks)}

\* C15: in one bfs call the chunks of works are processed in order.  While a
\* chunk is awaited its tasks are exactly its works, at most chunk_size of them,
\* and no later work has been requested; a request for a work outside the
\* chunk, the target check (found, or the batch growing) and the return happen
\* only when every fetch of the chunk has completed.
C15_ChunksInOrder ==
    /\ [](phase = "movies"
            => /\ Len(small_movie_batch) <= chunk_size
               /\ ChunkTasks = Range(small_movie_batch)
               /\ \A w \in Range(movies) : fetches[MoviePage(w)] = 0)
    /\ [][(phase = "movies"
             /\ \/ \E w \in Works \ Range(small_movie_batch) :
                      fetches'[MoviePage(w)] # fetches[MoviePage(w)]
                \/ found' # found
                \/ small_actor_batch' # small_actor_batch
                \/ phase' # phase)
            => GatherDone]_vars

\* C15 happens: the second chunk of a bfs call is in flight, the first one
\* having been fetched whole and checked.
C15_Witness ==
    /\ phase = "movies"
    /\ InFlight # {}
    /\ Len(small_movie_batch) = chunk_size
    /\ \E w \in Works \ Range(small_movie_batch) :
          /\ fetches[MoviePage(w)] = 1
          /\ \E p \in Range(current_urls) : p \in cast[w]
          /\ cast[w] \subseteq Range(small_actor_batch)

\* C16: when a round starts each deque holds exactly one level, the seed level
\* before the first round and afterwards the next level the round before has
\* enqueued (which may be empty); during a round both deques are empty, one
\* level having been taken from each; popleft never fails, so "Deque is
\* exhausted" is never raised.
C16_OneLevelPerRound ==
    /\ outcome # "exhausted"
    /\ pc = "loop"
          => /\ Len(forward_actors) = 1 /\ Len(backward_actors) = 1
             /\ forward_actors[1] =
                   IF rounds = 0 THEN <<actor_start_url>> ELSE next_level_f
             /\ backward_actors[1] =
                   IF rounds = 0 THEN <<actor_end_url>> ELSE next_level_b
    /\ pc \in {"forward", "backward"}
          => forward_actors = <<>> /\ backward_actors = <<>>

\* C16 happens: a round after the first one has dequeued a level without
\* persons from each deque and goes on.
C16_Witness ==
    /\ pc = "forward"
    /\ outcome = "none"
    /\ rounds > 1
    /\ forward_urls = <<>>
    /\ backward_urls = <<>>

\* The level-depth invariant: the counter is the number of rounds completed,
\* and the levels dequeued in the round with counter d hold persons within d
\* hops of the start person (forward) and of the end person (backward).
LevelDepth ==
    /\ pc = "loop" => distance = rounds
    /\ pc \in {"forward", "backward"}
          => /\ distance = rounds - 1
             /\ Range(forward_urls) \subseteq Within({actor_start_url}, distance)
             /\ Range(backward_urls) \subseteq Within({actor_end_url}, distance)

\* C17: the level-depth invariant holds, and the counter only changes by +1,
\* at the end of a round that does not end the call.
C17_LevelDepth ==
    /\ []LevelDepth
    /\ [][distance' # distance
            => (pc = "backward" /\ pc' = "loop" /\ distance' = distance + 1)]_vars

\* C17 amended: the level-depth invariant holds, and the counter changes by +1
\* at the end of a round that does not end the call, and otherwise only in the
\* step that ends the call on an overlap of levels, which sets it to the value
\* returned, 2d + 1 or 2d + 2.
C17_LevelDepthAmended ==
    /\ []LevelDepth
    /\ [][distance' # distance
            => \/ pc = "backward" /\ pc' = "loop" /\ distance' = distance + 1
               \/ /\ pc' = "done" /\ outcome' = "distance" /\ returned' = distance'
                  /\ distance' \in {(2 * distance) + 1, (2 * distance) + 2}]_vars

\* C17 happens: the second round ran with counter 1 on a forward level holding
\* a person one hop from the start person, and ended the call on an overlap,
\* leaving the value returned in the counter.
C17_Witness ==
    /\ pc = "done"
    /\ outcome = "distance"
    /\ rounds = 2
    /\ distance = returned
    /\ distance > rounds
    /\ \E p \in Range(forward_urls) :
          p # actor_start_url /\ CoAppear(actor_start_url, p)

====
